---- MODULE Spec2Model ----
(***************************************************************************)
(* Model of obs_tasks: the markdown task parser (parser.py), the section   *)
(* patching state writer (writer.py), the atomic file writer and the       *)
(* command executor (executor.py).                                         *)
(*                                                                         *)
(* A document is a text.  A text is represented by the tuple of its        *)
(* "\n"-separated segments (what text.split("\n") returns), so a text      *)
(* that ends with "\n" has an empty last segment.  A segment is a line     *)
(* record; the Result line may carry an embedded line-break character      *)
(* other than "\n" (form feed stands for all of them), which               *)
(* str.splitlines() splits on although it was written as one line.         *)
(***************************************************************************)
EXTENDS Integers, Sequences, FiniteSets, TLC

\* ------------------------------------------------------------------ bounds
MaxCycles == 2

\* ------------------------------------------------------- program constants
MAX_HISTORY_ROWS == 20

\* --------------------------------------------------------------- Optionals
\* Python's None is the empty tuple, a present value v is <<v>>.
None == <<>>
Some(v) == <<v>>
IsNone(o) == o = <<>>
Get(o) == o[1]

Min(S) == CHOOSE x \in S : \A y \in S : x <= y

\* -------------------------------------------------------------------- Text
\* A Python str that matters to the writer: a body, optionally followed by a
\* separator character and a tail.  sep is "nl" for "\n", "ff" for any
\* other character str.splitlines() splits on (\x0c, \x85, \u2028 and so on),
\* "sp" for a blank.  tail names the text after the separator: text that
\* reads as a line of a task document.  long says that body alone holds 200
\* characters or more.
Txt(body) == [body |-> body, sep |-> "none", tail |-> "none", long |-> FALSE]
TxtTail(body, sep, tail) == [body |-> body, sep |-> sep, tail |-> tail, long |-> FALSE]
TxtLong(body, sep, tail) == [body |-> body, sep |-> sep, tail |-> tail, long |-> TRUE]
EmptyText == Txt("")
DashText == Txt("-")

\* bool(s)
Truthy(t) == t # EmptyText

\* s.strip(): bodies " " are whitespace only, every other body has no outer
\* whitespace.
Strip(t) == IF t.body = " " /\ t.sep = "none" THEN EmptyText ELSE t

\* s[:200]
Cut200(t) == IF t.long THEN [t EXCEPT !.sep = "none", !.tail = "none"] ELSE t

\* s.replace("\n", " ")
ReplaceNewline(t) == IF t.sep = "nl" THEN [t EXCEPT !.sep = "sp"] ELSE t

\* ------------------------------------------------------------------- Lines
\* k: "h" heading, "f" field line "- Label: value", "b" blank, "p" prose,
\* "hr" the line "---", "det" a line starting with "**Detailed",
\* "th" the table header row, "ts" the table separator row, "row" a table
\* data row.  q: for Command, the value is backtick quoted; for a blank
\* line, the line holds whitespace (it is not the empty string).
\* v is the value text of the line, a tuple that starts with its form:
\* <<"s", string>>, <<"st", emoji, label>>, <<"num", n>>, <<"dt", seconds>>,
\* <<"dur", tenths>>, <<"dash">> for "-", <<"txt", text>>, <<"p", prose>>,
\* <<"row", time, status, duration, link>>.
Line(k, lvl, q, t, v) == [k |-> k, lvl |-> lvl, q |-> q, t |-> t, v |-> v]
Heading(lvl, title) == Line("h", lvl, FALSE, title, <<>>)
Field(label, v) == Line("f", 0, FALSE, label, v)
CommandBt(c) == Line("f", 0, TRUE, "Command", <<"s", c>>)
CommandBare(c) == Line("f", 0, FALSE, "Command", <<"s", c>>)
Blank == Line("b", 0, FALSE, "", <<>>)
WsLine == Line("b", 0, TRUE, "", <<>>)
Prose(id) == Line("p", 0, FALSE, "", <<"p", id>>)
Rule == Line("hr", 0, FALSE, "", <<>>)
Detailed == Line("det", 0, FALSE, "", <<>>)
TableHead == Line("th", 0, FALSE, "", <<>>)
TableSep == Line("ts", 0, FALSE, "", <<>>)
Row(time, status, duration, link) ==
    Line("row", 0, FALSE, "", <<"row", time, status, duration, link>>)

\* A test that takes only the empty string for a blank line: line == ""
IsBlank_empty_only(l) == l.k = "b" /\ ~l.q
\* line.strip() == ""
IsBlank(l) == l.k = "b"

\* The line that a tail of a text reads as once it stands on its own.
TailLine(tail) ==
    CASE tail = "cmd" -> CommandBt("evil")
      [] tail = "sched" -> Field("Schedule", <<"s", "evil">>)
      [] tail = "hist" -> Heading(4, "Run History")
      [] OTHER -> Prose(tail)

\* str.lower() on the heading titles of the model.
Lower(s) ==
    CASE s = "Current State" -> "current state"
      [] s = "CURRENT STATE" -> "current state"
      [] s = "Statistics" -> "statistics"
      [] s = "Run History" -> "run history"
      [] s = "Task Definition" -> "task definition"
      [] s = "Notes" -> "notes"
      [] s = "A" -> "a"
      [] s = "B" -> "b"
      [] s = "T" -> "t"
      [] s = "Config" -> "config"
      [] s = "AB" -> "ab"
      [] OTHER -> s

\* ------------------------------------------------- text <-> lines
\* "\n".join(lines), as the tuple of "\n"-separated segments of the text.
JoinLines(lines) == IF lines = <<>> THEN <<Blank>> ELSE lines

\* text.endswith("\n")
EndsWithNewline(segs) == Len(segs) >= 2 /\ segs[Len(segs)] = Blank

\* One written line as str.splitlines() sees it: a Result line that holds a
\* line-break character other than "\n" reads as two lines.
SplitSegment(l) ==
    IF l.k = "f" /\ l.t = "Result" /\ l.v[2].sep = "ff"
    THEN << [l EXCEPT !.v = <<"txt", Txt(l.v[2].body)>>], TailLine(l.v[2].tail) >>
    ELSE << l >>

RECURSIVE Flatten(_)
Flatten(segs) ==
    IF segs = <<>> THEN <<>>
    ELSE SplitSegment(Head(segs)) \o Flatten(Tail(segs))

\* content.splitlines(): the terminator of the last line opens no new line.
SplitLines(segs) ==
    IF segs[Len(segs)] = Blank
    THEN Flatten(SubSeq(segs, 1, Len(segs) - 1))
    ELSE Flatten(segs)

\* ------------------------------------------------------------- models.py
\* slugify() on the titles of the model.
slugify(title) ==
    CASE title = "Task Definition" -> "task-definition"
      [] title = "Current State" -> "current-state"
      [] title = "Run History" -> "run-history"
      [] OTHER -> Lower(title)

\* ExecutionResult.summary
summary(result) ==
    IF ~result.success /\ ~IsNone(result.error_message)
            /\ Truthy(Get(result.error_message))
    THEN Strip(Cut200(Get(result.error_message)))
    ELSE IF Truthy(result.stdout) THEN Strip(Cut200(result.stdout))
    ELSE IF Truthy(result.stderr) THEN Strip(Cut200(result.stderr))
    ELSE EmptyText

\* ----------------------------------------------- writer.py: formatting
\* _STATUS_EMOJI / _format_status: the display form is <<"st", emoji, label>>.
_format_status(status) ==
    CASE status = "success" -> <<"st", "check", "Success">>
      [] status = "failed" -> <<"st", "cross", "Failed">>
      [] status = "running" -> <<"st", "cycle", "Running">>
      [] status = "never_run" -> <<"st", "", "Never run">>

\* _format_datetime: strftime("%Y-%m-%d %H:%M:%S") drops the microseconds.
_format_datetime(dt) ==
    IF IsNone(dt) THEN <<"dash">> ELSE <<"dt", dt[1]>>

\* _format_duration: f"{seconds:.1f}s"; durations are held in milliseconds,
\* the written form in tenths of a second.
_format_duration(ms) ==
    IF IsNone(ms) THEN <<"dash">> ELSE <<"dur", (Get(ms) + 50) \div 100>>

\* _format_result
_format_result(s) ==
    IF ~Truthy(s) THEN <<"txt", DashText>>
    ELSE <<"txt", Cut200(Strip(ReplaceNewline(s)))>>

\* f"{n}" of an int
FormatInt(n) == <<"num", n>>

\* ----------------------------------------------- writer.py: section builders
build_current_state_lines(status, last_run, next_run, duration, result_summary) ==
    << Heading(4, "Current State"),
       Field("Status", _format_status(status)),
       Field("Last Run", _format_datetime(last_run)),
       Field("Next Run", _format_datetime(next_run)),
       Field("Duration", _format_duration(duration)),
       Field("Result", _format_result(result_summary)) >>

build_statistics_lines(total_runs, successful_runs, failed_runs, last_failure) ==
    << Heading(4, "Statistics"),
       Field("Total Runs", FormatInt(total_runs)),
       Field("Successful", FormatInt(successful_runs)),
       Field("Failed", FormatInt(failed_runs)),
       Field("Last Failure", _format_datetime(last_failure)) >>

_HISTORY_HEADER == << Heading(4, "Run History"), TableHead, TableSep >>

\* _parse_history_rows: the lines of [start, end) that start with "|" and
\* are neither the header row nor the separator row.
RECURSIVE _parse_history_rows(_, _, _)
_parse_history_rows(lines, start, end) ==
    IF start >= end THEN <<>>
    ELSE (IF lines[start].k = "row" THEN <<lines[start]>> ELSE <<>>)
         \o _parse_history_rows(lines, start + 1, end)

\* The first n elements of a sequence: s[:n]
Take(s, n) == SubSeq(s, 1, IF Len(s) < n THEN Len(s) ELSE n)

\* build_run_history_lines
build_run_history_lines(existing_rows, result, report_name) ==
    LET status_emoji == IF result.success THEN "check" ELSE "cross"
        time_str == result.started_at[1]
        duration_str == _format_duration(Some(result.duration))
        report_link == IF ~IsNone(report_name)
                       THEN <<"link", Get(report_name)>> ELSE <<"dash">>
        new_row == Row(time_str, status_emoji, duration_str, report_link)
        all_rows == Take(<<new_row>> \o existing_rows, MAX_HISTORY_ROWS)
    IN _HISTORY_HEADER \o all_rows

\* ----------------------------------------------- writer.py: section patching
\* _HEADING_RE / HEADING_RE
IsHeading(l) == l.k = "h"

\* A section that ends at the next heading of any level.
EndsSection_any_heading(l, lvl) == IsHeading(l) \/ l.k = "hr" \/ l.k = "det"
\* The lines at which a section that starts at a heading of level lvl ends: a
\* heading at the same or a higher level, "---", or a "**Detailed" line.
EndsSection(l, lvl) ==
    \/ IsHeading(l) /\ l.lvl <= lvl
    \/ l.k = "hr"
    \/ l.k = "det"

\* _find_section_range: 0-based [start, end) as <<start, end>>, or None.
\* lines[i] of the code is lines[i + 1] here.
_find_section_range(lines, section_title, search_start, search_end) ==
    LET starts == { i \in search_start .. (search_end - 1) :
                      /\ IsHeading(lines[i + 1])
                      /\ Lower(lines[i + 1].t) = Lower(section_title) }
    IN IF starts = {} THEN None
       ELSE LET start_idx == Min(starts)
                section_level == lines[start_idx + 1].lvl
                stops == { i \in (start_idx + 1) .. (search_end - 1) :
                             EndsSection(lines[i + 1], section_level) }
            IN IF stops = {} THEN <<start_idx, search_end>>
               ELSE <<start_idx, Min(stops)>>

\* _find_task_block_range: the whole file, whatever the task is.
_find_task_block_range(lines, task) == <<0, Len(lines)>>

\* lines[a:b] of a Python list (0-based, b exclusive)
Slice(lines, a, b) == SubSeq(lines, a + 1, b)

\* _replace_or_insert_section
_replace_or_insert_section(lines, section_title, new_section_lines, block_start, block_end) ==
    LET section_range == _find_section_range(lines, section_title, block_start, block_end)
    IN IF ~IsNone(section_range)
       THEN Slice(lines, 0, section_range[1]) \o new_section_lines \o <<Blank>>
            \o Slice(lines, section_range[2], Len(lines))
       ELSE LET insert_at == block_end
                prefix == IF insert_at > 0 /\ ~IsBlank(lines[insert_at])
                          THEN <<Blank>> ELSE <<>>
            IN Slice(lines, 0, insert_at) \o prefix \o new_section_lines
               \o <<Blank>> \o Slice(lines, insert_at, Len(lines))

\* update_task_state, lines 310-377: the text written for the text read.
\* report_name is None or Some(the stem of the report path).
UpdatedLines(segs, task, result, next_run, report_name) ==
    LET lines0 == SplitLines(segs)
        b0 == _find_task_block_range(lines0, task)
        status == IF result.success THEN "success" ELSE "failed"
        last_run == result.started_at
        duration == Some(result.duration)
        total_runs == task.total_runs + 1
        successful_runs == task.successful_runs + (IF result.success THEN 1 ELSE 0)
        failed_runs == task.failed_runs + (IF result.success THEN 0 ELSE 1)
        last_failure == IF ~result.success THEN result.started_at
                        ELSE task.last_failure
        state_lines == build_current_state_lines(status, last_run, next_run,
                                                 duration, summary(result))
        stats_lines == build_statistics_lines(total_runs, successful_runs,
                                              failed_runs, last_failure)
        lines1 == _replace_or_insert_section(lines0, "Current State", state_lines, b0[1], b0[2])
        b1 == _find_task_block_range(lines1, task)
        lines2 == _replace_or_insert_section(lines1, "Statistics", stats_lines, b1[1], b1[2])
        b2 == _find_task_block_range(lines2, task)
        history_range == _find_section_range(lines2, "Run History", b2[1], b2[2])
        existing_rows == IF ~IsNone(history_range)
                         THEN _parse_history_rows(lines2, history_range[1] + 1, history_range[2] + 1)
                         ELSE <<>>
        history_lines == build_run_history_lines(existing_rows, result, report_name)
    IN _replace_or_insert_section(lines2, "Run History", history_lines, b2[1], b2[2])

\* update_task_state, lines 374-377: join and make the text end with "\n".
NewContent(lines) ==
    LET new_content == JoinLines(lines)
    IN IF EndsWithNewline(new_content) THEN new_content
       ELSE new_content \o <<Blank>>

\* ------------------------------------------------------------- parser.py
_GENERIC_HEADINGS ==
    { "task definition", "definition", "configuration", "config", "setup",
      "task config", "task configuration" }

\* COMMAND_RE or COMMAND_NO_BACKTICK_RE matches the line
IsCommandLine(l) == l.k = "f" /\ l.t = "Command"

\* The attribute of _RawBlock that a field label is stored in.
RawAttr(label) ==
    CASE label = "Schedule" -> "schedule"
      [] label = "Status" -> "status"
      [] label = "Last Run" -> "last_run"
      [] label = "Next Run" -> "next_run"
      [] label = "Duration" -> "duration"
      [] label = "Result" -> "result"
      [] label = "Total Runs" -> "total_runs"
      [] label = "Successful" -> "successful"
      [] label = "Failed" -> "failed"
      [] label = "Last Failure" -> "last_failure"

\* _RawBlock(title, heading_level, heading_line) with every field None
_RawBlock(title, heading_level, heading_line) ==
    [ title |-> title, heading_level |-> heading_level,
      heading_line |-> heading_line,
      command |-> None, schedule |-> None, status |-> None,
      last_run |-> None, next_run |-> None, duration |-> None,
      result |-> None, total_runs |-> None, successful |-> None,
      failed |-> None, last_failure |-> None ]

\* One turn of the loop of _extract_fields: a backtick Command always
\* assigns, a bare Command assigns only while command is None, every other
\* field line assigns.
ExtractLine(raw, l) ==
    IF l.k # "f" THEN raw
    ELSE IF l.t = "Command"
    THEN IF l.q \/ IsNone(raw.command)
         THEN [raw EXCEPT !.command = Some(l.v)] ELSE raw
    ELSE [raw EXCEPT ![RawAttr(l.t)] = Some(l.v)]

\* _extract_fields
RECURSIVE _extract_fields(_, _)
_extract_fields(block_lines, raw) ==
    IF block_lines = <<>> THEN raw
    ELSE _extract_fields(Tail(block_lines), ExtractLine(raw, Head(block_lines)))

Max(S) == CHOOSE x \in S : \A y \in S : x >= y

\* A locator that takes the nearest heading above the Command line as it is.
TitleHeading_nearest(lines, cmd_line) ==
    LET above == { h \in 0 .. (cmd_line - 1) : IsHeading(lines[h + 1]) }
    IN IF above = {} THEN None ELSE Some(Max(above))
\* _find_task_blocks, lines 145-170: the heading (0-based line index) that
\* the Command line at cmd_line resolves to, or None.
TitleHeading(lines, cmd_line) ==
    LET above == { h \in 0 .. (cmd_line - 1) : IsHeading(lines[h + 1]) }
    IN IF above = {} THEN None
       ELSE LET h_line == Max(above)
                h == lines[h_line + 1]
                parents == { ph \in 0 .. (h_line - 1) :
                               /\ IsHeading(lines[ph + 1])
                               /\ lines[ph + 1].lvl < h.lvl }
            IN IF Lower(h.t) \in _GENERIC_HEADINGS /\ parents # {}
               THEN Some(Max(parents)) ELSE Some(h_line)

\* A locator whose blocks end at the next heading, whatever its level.
BlockEnd_any_heading(lines, h_line) ==
    LET nexts == { n \in (h_line + 1) .. (Len(lines) - 1) : IsHeading(lines[n + 1]) }
    IN IF nexts = {} THEN Len(lines) ELSE Min(nexts)
\* A locator whose blocks all reach to the end of the document.
BlockEnd_to_eof(lines, h_line) == Len(lines)
\* _find_task_blocks, lines 172-177: the end of the block of heading h_line
BlockEnd(lines, h_line) ==
    LET nexts == { n \in (h_line + 1) .. (Len(lines) - 1) :
                     /\ IsHeading(lines[n + 1])
                     /\ lines[n + 1].lvl <= lines[h_line + 1].lvl }
    IN IF nexts = {} THEN Len(lines) ELSE Min(nexts)

\* _find_task_blocks, lines 144-199: the blocks of the Command lines from
\* line index i on, one turn of the loop per Command line.
RECURSIVE BlocksFrom(_, _)
BlocksFrom(lines, i) ==
    IF i >= Len(lines) THEN <<>>
    ELSE IF ~IsCommandLine(lines[i + 1]) THEN BlocksFrom(lines, i + 1)
    ELSE LET th == TitleHeading(lines, i)
         IN IF IsNone(th) THEN BlocksFrom(lines, i + 1)
            ELSE LET h_line == Get(th)
                     block_end == BlockEnd(lines, h_line)
                     raw == _extract_fields(
                              Slice(lines, h_line, block_end),
                              _RawBlock(lines[h_line + 1].t,
                                        lines[h_line + 1].lvl, h_line))
                 IN (IF ~IsNone(raw.command) /\ ~IsNone(raw.schedule)
                     THEN <<raw>> ELSE <<>>)
                    \o BlocksFrom(lines, i + 1)

_find_task_blocks(lines) == BlocksFrom(lines, 0)

\* str.lower() on the status labels of the model
LowerLabel(s) ==
    CASE s = "Success" -> "success"
      [] s = "Failed" -> "failed"
      [] s = "Running" -> "running"
      [] s = "Never run" -> "never run"
      [] s = "OK" -> "ok"
      [] OTHER -> s

\* A _parse_status that does not take the emoji off the text.
_parse_status_keeps_emoji(value) ==
    IF IsNone(value) THEN "never_run"
    ELSE LET lower == IF Get(value)[2] = "" THEN LowerLabel(Get(value)[3]) ELSE "?"
         IN CASE lower \in {"success", "succeeded", "ok"} -> "success"
              [] lower \in {"failed", "failure", "error"} -> "failed"
              [] lower \in {"running", "in progress", "in_progress"} -> "running"
              [] OTHER -> "never_run"
\* _parse_status: a status text is <<"st", emoji, label>>, "" for no emoji.
_parse_status(value) ==
    IF IsNone(value) THEN "never_run"
    ELSE LET v == Get(value)
             lower == IF v[2] \in {"", "check", "cross", "cycle", "hourglass"}
                      THEN LowerLabel(v[3]) ELSE "?"
         IN CASE lower \in {"success", "succeeded", "ok"} -> "success"
              [] lower \in {"failed", "failure", "error"} -> "failed"
              [] lower \in {"running", "in progress", "in_progress"} -> "running"
              [] OTHER -> "never_run"

\* _parse_datetime: a parsed time has no microseconds
_parse_datetime(value) ==
    IF IsNone(value) THEN None
    ELSE IF Get(value)[1] = "dt" THEN <<Get(value)[2], 0>>
    ELSE None

\* _parse_duration, in milliseconds
_parse_duration(value) ==
    IF IsNone(value) THEN None
    ELSE IF Get(value)[1] = "dur" THEN Some(Get(value)[2] * 100)
    ELSE None

\* _parse_int: "num" is a decimal number, "numc" one with thousands commas
_parse_int(value) ==
    IF IsNone(value) THEN 0
    ELSE IF Get(value)[1] \in {"num", "numc"} THEN Get(value)[2]
    ELSE 0

\* _block_to_task
_block_to_task(block) ==
    [ id |-> slugify(block.title),
      title |-> block.title,
      command |-> Get(block.command)[2],
      schedule |-> Get(block.schedule)[2],
      status |-> _parse_status(block.status),
      last_run |-> _parse_datetime(block.last_run),
      next_run |-> _parse_datetime(block.next_run),
      duration |-> _parse_duration(block.duration),
      result_summary |-> IF ~IsNone(block.result) /\ Get(block.result)[2] # DashText
                         THEN Some(Get(block.result)[2]) ELSE None,
      total_runs |-> _parse_int(block.total_runs),
      successful_runs |-> _parse_int(block.successful),
      failed_runs |-> _parse_int(block.failed),
      last_failure |-> _parse_datetime(block.last_failure),
      heading_line |-> block.heading_line ]

\* parse_file on a readable file whose text is segs
parse_file(segs) ==
    LET blocks == _find_task_blocks(SplitLines(segs))
    IN [ i \in 1 .. Len(blocks) |-> _block_to_task(blocks[i]) ]

\* ----------------------------------------------------------- executor.py
\* What running the command can come to: the shell exits with a code and
\* its output, the timeout expires, or subprocess.run raises another
\* exception (the process cannot be launched, the output cannot be decoded).
ExitOutcome(code, stdout, stderr) ==
    [kind |-> "exit", code |-> code, stdout |-> stdout, stderr |-> stderr,
     msg |-> EmptyText]
TimeoutOutcome ==
    [kind |-> "timeout", code |-> 0, stdout |-> EmptyText, stderr |-> EmptyText,
     msg |-> EmptyText]
ErrorOutcome(msg) ==
    [kind |-> "error", code |-> 0, stdout |-> EmptyText, stderr |-> EmptyText,
     msg |-> msg]

\* ExecutionResult(...)
ExecutionResult(task_id, success, exit_code, stdout, stderr, started_at, duration, error_message, timed_out) ==
    [ task_id |-> task_id, success |-> success, exit_code |-> exit_code,
      stdout |-> stdout, stderr |-> stderr, started_at |-> started_at,
      duration |-> duration, error_message |-> error_message,
      timed_out |-> timed_out ]

\* execute_task, lines 88-123: the process ran to its end
ResultOfExit(task_id, o, started_at, elapsed) ==
    LET success == o.code = 0
        error_msg == IF success THEN None
                     ELSE IF Truthy(Strip(o.stderr)) THEN Some(Strip(o.stderr))
                     ELSE Some(Txt("Command exited with code"))
    IN ExecutionResult(task_id, success, o.code, o.stdout, o.stderr,
                       started_at, elapsed, error_msg, FALSE)

\* execute_task, lines 125-141: subprocess.TimeoutExpired
ResultOfTimeout(task_id, started_at, elapsed) ==
    ExecutionResult(task_id, FALSE, -1, EmptyText, EmptyText, started_at,
                    elapsed, Some(Txt("Command timed out")), TRUE)

\* execute_task, lines 143-159: any other exception
ResultOfException(task_id, msg, started_at, elapsed) ==
    ExecutionResult(task_id, FALSE, -1, EmptyText, EmptyText, started_at,
                    elapsed, Some(msg), FALSE)

\* execute_task as a whole
execute_task(task_id, o, started_at, elapsed) ==
    CASE o.kind = "exit" -> ResultOfExit(task_id, o, started_at, elapsed)
      [] o.kind = "timeout" -> ResultOfTimeout(task_id, started_at, elapsed)
      [] o.kind = "error" -> ResultOfException(task_id, o.msg, started_at, elapsed)

\* ------------------------------------------------------------------ inputs
\* The outcomes of a run that the model draws from.
Outcomes ==
    { ExitOutcome(0, Txt("out"), EmptyText),
      ExitOutcome(0, EmptyText, Txt("warn")),
      ExitOutcome(0, TxtTail("out", "nl", "cmd"), EmptyText),
      ExitOutcome(0, TxtTail("out", "ff", "cmd"), EmptyText),
      ExitOutcome(0, TxtTail("out", "ff", "hist"), EmptyText),
      ExitOutcome(0, TxtLong("out", "ff", "cmd"), EmptyText),
      ExitOutcome(1, Txt("out"), Txt(" ")),
      ExitOutcome(1, EmptyText, TxtTail("err", "ff", "sched")),
      TimeoutOutcome,
      ErrorOutcome(Txt("No such file or directory")) }

\* Microseconds of datetime.now()
Micros == {0, 500000}

\* Elapsed time of a run in milliseconds
Elapsed(o) == IF o.kind = "timeout" THEN 5000 ELSE 1234

\* A text file whose lines all end with "\n"
TextOf(lines) == lines \o <<Blank>>

Sched == Field("Schedule", <<"s", "s">>)
NeverRun == Field("Status", <<"st", "", "Never run">>)
Num(n) == <<"num", n>>

\* conftest.py: the sample task file
DocFixture == TextOf(<< Heading(4, "Task Definition"), CommandBt("a"), Sched >>)

\* a task under its own title heading
DocTitled == TextOf(<< Heading(2, "A"), CommandBt("a"), Sched >>)

\* a generic sub-heading under the title heading
DocNested ==
    TextOf(<< Heading(2, "A"), Heading(4, "Task Definition"), CommandBare("a"), Sched >>)

\* two tasks in one document
DocMulti ==
    TextOf(<< Heading(2, "A"), CommandBt("a"), Sched, Blank,
              Heading(2, "B"), CommandBt("b"), Sched >>)

\* two tasks, each with managed sections of its own
DocMultiState ==
    TextOf(<< Heading(2, "A"), CommandBt("a"), Sched,
              Heading(4, "Current State"), Field("Status", <<"st", "check", "Success">>),
              Heading(4, "Statistics"), Field("Total Runs", Num(1)),
              Field("Successful", Num(1)), Field("Failed", Num(0)),
              Heading(2, "B"), CommandBt("b"), Sched,
              Heading(4, "Current State"), NeverRun,
              Heading(4, "Statistics"), Field("Total Runs", Num(0)) >>)

\* all three sections, then user notes and a blank line at the end
DocNotes ==
    TextOf(<< Heading(2, "A"), CommandBt("a"), Sched,
              Heading(4, "Current State"), NeverRun, Prose("mine"),
              Heading(4, "Statistics"),
              Heading(4, "Run History"), TableHead, TableSep,
              Rule, Prose("note"), Blank >>)

\* a field-like line in the user's notes, no "\n" at the end of the file
DocFieldNote ==
    << Heading(2, "A"), CommandBt("a"), Sched,
       Heading(4, "Statistics"), Field("Total Runs", Num(0)),
       Heading(4, "Notes"), Field("Total Runs", Num(7)), WsLine >>

\* sections at other levels and in another letter case
DocLevels ==
    TextOf(<< Heading(2, "A"), CommandBt("a"), Sched,
              Heading(5, "Statistics"), Field("Total Runs", Num(0)),
              Heading(6, "CURRENT STATE"), NeverRun,
              Heading(6, "Notes"), Prose("note"),
              Detailed, Prose("link") >>)

InitDocs ==
    { DocFixture, DocTitled, DocNested, DocMulti, DocMultiState, DocNotes,
      DocFieldNote, DocLevels }

\* ------------------------------------------------------------------- state
VARIABLES
    file,        \* the text of the task document
    pc,          \* where the run cycle stands
    task,        \* the Task that the cycle parsed
    result,      \* the ExecutionResult of the cycle
    report,      \* the stem of the report path of the cycle, or None
    reports,     \* the report files: stem -> content
    cycles,      \* number of update_task_state calls so far
    before,      \* history: the text that the last update read
    runs,        \* history: title, success and start time of every update
    start        \* history: the text of the document at the start

cycleVars == <<file, pc, task, result, report, reports, cycles, before, runs, start>>

\* _atomic_write next to a concurrent reader of the destination
VARIABLES
    parent_dir,  \* the parent directory of the destination exists
    dir,         \* the directory: file name ("dest", "tmp") -> inode
    inodes,      \* inode -> the chunks of content that the file holds
    aw_pc,       \* where _atomic_write stands
    aw_failed,   \* the step of _atomic_write that failed, "" for none
    unlink_failed, \* os.unlink in the except clause raised OSError
    dest0,       \* history: the content of the destination at the call
    rd_pc,       \* where the reader stands
    rd_ino,      \* the inode that the reader has opened
    rd_buf       \* the chunks that the reader has read

awVars == <<parent_dir, dir, inodes, aw_pc, aw_failed, unlink_failed, dest0,
            rd_pc, rd_ino, rd_buf>>

\* execute_task step by step
VARIABLES
    ex_pc,       \* where execute_task stands
    ex_in,       \* the arguments of the call
    ex_command,  \* the command after _prepare_command
    ex_outcome,  \* what subprocess.run came to
    ex_result    \* the returned ExecutionResult

exVars == <<ex_pc, ex_in, ex_command, ex_outcome, ex_result>>

\* parse_all_tasks over the task folder of a vault
VARIABLES
    tasks_dir,   \* the task folder exists and is a directory
    vault,       \* the .md files of the task folder: name -> file
    pl_pc,       \* where parse_all_tasks stands
    pl_files,    \* the files that find_task_files returned, not yet parsed
    pl_tasks,    \* the tasks collected so far, each with the name of its file
    pl_out       \* history: what parse_file returned, file by file

plVars == <<tasks_dir, vault, pl_pc, pl_files, pl_tasks, pl_out>>

\* one invocation of "obs-tasks run"
VARIABLES
    argv,        \* the arguments: task_name and file_path
    exit_code    \* the exit status of the invocation, None while it runs

runVars == <<argv, exit_code>>

\* update_task_state step by step
VARIABLES
    u_pc,        \* where update_task_state stands
    u_lines,     \* the local variable lines
    u_block,     \* the local variables block_start, block_end
    u_rows,      \* the local variable existing_rows
    u_log,       \* history: the patches and writes so far, in order
    u_writes     \* history: the number of _atomic_write calls

updVars == <<u_pc, u_lines, u_block, u_rows, u_log, u_writes>>

\* two invocations of "obs-tasks run" at the same time
VARIABLES
    procs        \* process -> where it stands, its task, result and report

twoVars == <<procs>>

\* one call of a function of writer.py or parser.py
VARIABLES
    fn_pc,       \* the function to call next, or which call has returned
    fn_in,       \* the arguments of the call
    fn_out       \* what the call returned

fnVars == <<fn_pc, fn_in, fn_out>>

moreVars == <<plVars, runVars, updVars, twoVars, fnVars>>

vars == <<cycleVars, awVars, exVars, moreVars>>

NoTask == [title |-> ""]
NoResult == [task_id |-> ""]

\* No file system step is under way.
AwIdle ==
    /\ parent_dir = TRUE
    /\ dir = [n \in {} |-> 0]
    /\ inodes = <<>>
    /\ aw_pc = "off"
    /\ aw_failed = ""
    /\ unlink_failed = FALSE
    /\ dest0 = None
    /\ rd_pc = "off"
    /\ rd_ino = 0
    /\ rd_buf = <<>>

\* No listing is under way.
PlOff ==
    /\ tasks_dir = TRUE /\ vault = <<>> /\ pl_pc = "off" /\ pl_files = <<>>
    /\ pl_tasks = <<>> /\ pl_out = <<>>

\* No invocation of run is under way.
RunOff == argv = <<>> /\ exit_code = None

\* No step by step update is under way.
UpdOff ==
    /\ u_pc = "off" /\ u_lines = <<>> /\ u_block = <<>> /\ u_rows = <<>>
    /\ u_log = <<>> /\ u_writes = 0

\* No second invocation is under way.
TwoOff == procs = <<>>

\* No single function is called.
FnOff == fn_pc = "off" /\ fn_in = <<>> /\ fn_out = <<>>

MoreIdle == PlOff /\ RunOff /\ UpdOff /\ TwoOff /\ FnOff

\* No call of execute_task is under way.
ExIdle ==
    /\ ex_pc = "off"
    /\ ex_in = <<>>
    /\ ex_command = <<>>
    /\ ex_outcome = <<>>
    /\ ex_result = NoResult

Init ==
    /\ AwIdle
    /\ ExIdle
    /\ MoreIdle
    /\ file \in InitDocs
    /\ pc = "idle"
    /\ task = NoTask
    /\ result = NoResult
    /\ report = None
    /\ reports = <<>>
    /\ cycles = 0
    /\ before = <<>>
    /\ runs = <<>>
    /\ start = file

\* cli.py run, lines 138-174: parse the document and pick the task to run
Parse ==
    /\ pc = "idle"
    /\ cycles < MaxCycles
    /\ \E i \in 1 .. Len(parse_file(file)) :
         task' = parse_file(file)[i]
    /\ pc' = "parsed"
    /\ UNCHANGED <<file, result, report, reports, cycles, before, runs, start, awVars, exVars, moreVars>>

\* datetime.now() at the start of a run, in whole seconds: the clock has
\* gone on by a second since the run before, or the run starts within the
\* same second.
Seconds ==
    IF runs = <<>> THEN {1}
    ELSE { runs[Len(runs)].started_at[1], runs[Len(runs)].started_at[1] + 1 }

\* cli.py run, lines 181-183: execute_task
Execute ==
    /\ pc = "parsed"
    /\ \E o \in Outcomes, sec \in Seconds, us \in Micros :
         result' = execute_task(task.id, o, <<sec, us>>, Elapsed(o))
    /\ pc' = "executed"
    /\ UNCHANGED <<file, task, report, reports, cycles, before, runs, start, awVars, exVars, moreVars>>

\* create_report: the stem of the report path and what the file holds
ReportStem(t, r) == <<r.started_at[1], slugify(t.title)>>
ReportContent(t, r) ==
    [ title |-> t.title, executed |-> _format_datetime(r.started_at),
      command |-> t.command, exit_code |-> r.exit_code,
      success |-> r.success, stdout |-> r.stdout, stderr |-> r.stderr ]

\* cli.py run, line 186: create_report
CreateReport ==
    /\ pc = "executed"
    /\ report' = Some(ReportStem(task, result))
    /\ reports' = [ n \in (DOMAIN reports) \cup {ReportStem(task, result)} |->
                      IF n = ReportStem(task, result)
                      THEN ReportContent(task, result) ELSE reports[n] ]
    /\ pc' = "reported"
    /\ UNCHANGED <<file, task, result, cycles, before, runs, start, awVars, exVars, moreVars>>

\* cli.py run, line 187: update_task_state
Update ==
    /\ pc = "reported"
    /\ file' = NewContent(UpdatedLines(file, task, result, None, report))
    /\ before' = file
    /\ cycles' = cycles + 1
    /\ runs' = Append(runs, [title |-> task.title, success |-> result.success,
                              started_at |-> result.started_at])
    /\ pc' = "idle"
    /\ UNCHANGED <<task, result, report, reports, start, awVars, exVars, moreVars>>

Next == Parse \/ Execute \/ CreateReport \/ Update

Spec == Init /\ [][Next]_vars

\* ------------------------------------------- writer.py: _atomic_write
\* Number of chunks in which the content reaches the file (bound).
AwChunks == 2

\* The previous content of the destination and the content to write.
OldContent == [i \in 1 .. AwChunks |-> <<"old", i>>]
NewContent0 == [i \in 1 .. AwChunks |-> <<"new", i>>]

\* The content of a file of the directory by name, None when there is none.
ContentOf(d, ino, name) ==
    IF name \in DOMAIN d THEN Some(ino[d[name]]) ELSE None

\* A writer that opens the destination itself and writes into it in place.
mkstemp_inode_in_place(d, ino) ==
    IF "dest" \in DOMAIN d THEN d["dest"] ELSE Len(ino) + 1
\* tempfile.mkstemp: the inode of the file that it creates, a new one.
mkstemp_inode(d, ino) == Len(ino) + 1

\* An except clause that leaves the temp file where it is.
unlink_skipped(d, name) == d
\* os.unlink(name)
unlink(d, name) == [n \in (DOMAIN d) \ {name} |-> d[n]]

\* os.replace(src, dst): dst names the inode of src, src is gone, atomically.
replace(d, src, dst) ==
    [n \in ((DOMAIN d) \ {src}) \cup {dst} |-> IF n = dst THEN d[src] ELSE d[n]]

InitAW ==
    /\ pc = "off" /\ file = <<>> /\ task = NoTask /\ result = NoResult
    /\ report = None /\ reports = <<>> /\ cycles = 0 /\ before = <<>>
    /\ runs = <<>> /\ start = <<>>
    /\ ExIdle
    /\ MoreIdle
    /\ \/ parent_dir = FALSE /\ dir = [n \in {} |-> 0] /\ inodes = <<>>
       \/ parent_dir = TRUE /\ dir = [n \in {} |-> 0] /\ inodes = <<>>
       \/ parent_dir = TRUE /\ dir = [n \in {"dest"} |-> 1]
            /\ inodes = <<OldContent>>
    /\ aw_pc = "start"
    /\ aw_failed = ""
    /\ unlink_failed = FALSE
    /\ dest0 = ContentOf(dir, inodes, "dest")
    /\ rd_pc = "idle"
    /\ rd_ino = 0
    /\ rd_buf = <<>>

\* A step of _atomic_write raises: control goes to where the exception does.
AwFail(step, to) ==
    /\ aw_failed' = step
    /\ aw_pc' = to
    /\ UNCHANGED <<parent_dir, dir, inodes, unlink_failed>>

\* line 267: file_path.parent.mkdir(parents=True, exist_ok=True)
AwMkdir ==
    /\ aw_pc = "start"
    /\ \/ /\ parent_dir' = TRUE
          /\ aw_pc' = "mkdir"
          /\ UNCHANGED <<dir, inodes, aw_failed, unlink_failed>>
       \/ ~parent_dir /\ AwFail("mkdir", "raised")
    /\ UNCHANGED <<dest0, rd_pc, rd_ino, rd_buf, cycleVars, exVars, moreVars>>

\* lines 268-270: tempfile.mkstemp in the directory of the destination
AwMkstemp ==
    /\ aw_pc = "mkdir"
    /\ \/ /\ inodes' = [i \in 1 .. Max({Len(inodes), mkstemp_inode(dir, inodes)}) |->
                          IF i = mkstemp_inode(dir, inodes) THEN <<>> ELSE inodes[i]]
          /\ dir' = [n \in (DOMAIN dir) \cup {"tmp"} |->
                       IF n = "tmp" THEN mkstemp_inode(dir, inodes) ELSE dir[n]]
          /\ aw_pc' = "write"
          /\ UNCHANGED <<parent_dir, aw_failed, unlink_failed>>
       \/ AwFail("mkstemp", "raised")
    /\ UNCHANGED <<dest0, rd_pc, rd_ino, rd_buf, cycleVars, exVars, moreVars>>

\* lines 272-273: f.write(content): one more chunk reaches the temp file
AwWrite ==
    /\ aw_pc = "write"
    /\ Len(inodes[dir["tmp"]]) < AwChunks
    /\ \/ /\ inodes' = [inodes EXCEPT ![dir["tmp"]] =
                          Append(@, NewContent0[Len(@) + 1])]
          /\ UNCHANGED <<parent_dir, dir, aw_pc, aw_failed, unlink_failed>>
       \/ AwFail("write", "except")
    /\ UNCHANGED <<dest0, rd_pc, rd_ino, rd_buf, cycleVars, exVars, moreVars>>

\* line 272: the with block closes the temp file
AwClose ==
    /\ aw_pc = "write"
    /\ Len(inodes[dir["tmp"]]) = AwChunks
    /\ \/ /\ aw_pc' = "closed"
          /\ UNCHANGED <<parent_dir, dir, inodes, aw_failed, unlink_failed>>
       \/ AwFail("close", "except")
    /\ UNCHANGED <<dest0, rd_pc, rd_ino, rd_buf, cycleVars, exVars, moreVars>>

\* line 274: os.replace(tmp_path, file_path)
AwReplace ==
    /\ aw_pc = "closed"
    /\ \/ /\ dir' = replace(dir, "tmp", "dest")
          /\ aw_pc' = "done"
          /\ UNCHANGED <<parent_dir, inodes, aw_failed, unlink_failed>>
       \/ AwFail("replace", "except")
    /\ UNCHANGED <<dest0, rd_pc, rd_ino, rd_buf, cycleVars, exVars, moreVars>>

\* lines 275-281: except Exception: unlink the temp file (an OSError of the
\* unlink is passed over), then raise
AwExcept ==
    /\ aw_pc = "except"
    /\ \/ dir' = unlink(dir, "tmp") /\ UNCHANGED unlink_failed
       \/ unlink_failed' = TRUE /\ UNCHANGED dir
    /\ aw_pc' = "raised"
    /\ UNCHANGED <<parent_dir, inodes, aw_failed, dest0, rd_pc, rd_ino, rd_buf,
                   cycleVars, exVars, moreVars>>

\* The process dies at any step: nothing more of _atomic_write runs.
AwCrash ==
    /\ aw_pc \in {"start", "mkdir", "write", "closed", "except"}
    /\ aw_pc' = "crashed"
    /\ UNCHANGED <<parent_dir, dir, inodes, aw_failed, unlink_failed, dest0,
                   rd_pc, rd_ino, rd_buf, cycleVars, exVars, moreVars>>

\* A concurrent reader opens the destination: it holds the inode that the
\* name stands for at that moment, or finds no file.
RdOpen ==
    /\ rd_pc = "idle"
    /\ IF "dest" \in DOMAIN dir
       THEN rd_pc' = "reading" /\ rd_ino' = dir["dest"]
       ELSE rd_pc' = "nofile" /\ rd_ino' = 0
    /\ rd_buf' = <<>>
    /\ UNCHANGED <<parent_dir, dir, inodes, aw_pc, aw_failed, unlink_failed,
                   dest0, cycleVars, exVars, moreVars>>

\* The reader reads the next chunk of the file it has opened, or its end.
RdRead ==
    /\ rd_pc = "reading"
    /\ IF Len(rd_buf) < Len(inodes[rd_ino])
       THEN rd_buf' = Append(rd_buf, inodes[rd_ino][Len(rd_buf) + 1])
            /\ rd_pc' = "reading"
       ELSE rd_buf' = rd_buf /\ rd_pc' = "eof"
    /\ UNCHANGED <<parent_dir, dir, inodes, aw_pc, aw_failed, unlink_failed,
                   dest0, rd_ino, cycleVars, exVars, moreVars>>

NextAW ==
    \/ AwMkdir \/ AwMkstemp \/ AwWrite \/ AwClose \/ AwReplace \/ AwExcept
    \/ AwCrash \/ RdOpen \/ RdRead

SpecAW == InitAW /\ [][NextAW]_vars

\* ------------------------------------------- executor.py: execute_task
\* _prepare_command: a command is <<text, where the parameters went>>.
\* The command text "p" holds the placeholder {{params}}, "a" does not;
\* parameters is None, Some("empty") for {} or Some("kv") for a filled dict.
_prepare_command(command, parameters) ==
    IF IsNone(parameters) \/ Get(parameters) = "empty" THEN <<command, "">>
    ELSE IF command = "p" THEN <<command, "replaced">>
    ELSE <<command, "appended">>

\* The exceptions that subprocess.run can end with, and those among them
\* that derive from Exception (KeyboardInterrupt does not).
RunExceptions == {"TimeoutExpired", "OSError", "UnicodeDecodeError", "KeyboardInterrupt"}
IsException(e) == e \in {"TimeoutExpired", "OSError", "UnicodeDecodeError"}

\* An execute_task that has the TimeoutExpired clause only.
ExceptClause_timeout_only(e) ==
    IF e = "TimeoutExpired" THEN "TimeoutExpired" ELSE ""
\* The except clauses of execute_task, lines 125 and 143: the clause that
\* takes the exception e, "" when none does.
ExceptClause(e) ==
    IF e = "TimeoutExpired" THEN "TimeoutExpired"
    ELSE IF IsException(e) THEN "Exception"
    ELSE ""

\* What subprocess.run can come to in a working directory.
RunOutcomes(working_dir) ==
    IF working_dir = Some("missing")
    THEN { [ErrorOutcome(Txt("No such file or directory")) EXCEPT !.kind = "OSError"] }
    ELSE { o \in Outcomes : o.kind = "exit" }
         \cup { [TimeoutOutcome EXCEPT !.kind = "TimeoutExpired"],
                [ErrorOutcome(Txt("codec can't decode byte")) EXCEPT !.kind = "UnicodeDecodeError"],
                [ErrorOutcome(EmptyText) EXCEPT !.kind = "KeyboardInterrupt"] }

InitExec ==
    /\ pc = "off" /\ file = <<>> /\ task = NoTask /\ result = NoResult
    /\ report = None /\ reports = <<>> /\ cycles = 0 /\ before = <<>>
    /\ runs = <<>> /\ start = <<>>
    /\ AwIdle
    /\ MoreIdle
    /\ ex_pc = "call"
    /\ ex_in \in [ task_id : {"a"}, command : {"a", "p"},
                   parameters : {None, Some("empty"), Some("kv")},
                   working_dir : {None, Some("ok"), Some("missing")} ]
    /\ ex_command = <<>>
    /\ ex_outcome = <<>>
    /\ ex_result = NoResult

\* lines 72-76: take the start time, prepare the command
ExPrepare ==
    /\ ex_pc = "call"
    /\ \E us \in Micros :
         ex_command' = [ command |-> _prepare_command(ex_in.command, ex_in.parameters),
                         cwd |-> ex_in.working_dir, started_at |-> <<1, us>> ]
    /\ ex_pc' = "try"
    /\ UNCHANGED <<ex_in, ex_outcome, ex_result, cycleVars, awVars, moreVars>>

\* lines 80-87: subprocess.run returns or raises
ExRun ==
    /\ ex_pc = "try"
    /\ ex_outcome' \in RunOutcomes(ex_command.cwd)
    /\ ex_pc' = "ran"
    /\ UNCHANGED <<ex_in, ex_command, ex_result, cycleVars, awVars, moreVars>>

\* lines 88-123: subprocess.run returned: build and return the result
ExReturn ==
    /\ ex_pc = "ran"
    /\ ex_outcome.kind = "exit"
    /\ ex_result' = ResultOfExit(ex_in.task_id, ex_outcome,
                                 ex_command.started_at, Elapsed(ex_outcome))
    /\ ex_pc' = "returned"
    /\ UNCHANGED <<ex_in, ex_command, ex_outcome, cycleVars, awVars, moreVars>>

\* lines 125-159: subprocess.run raised: the except clause that takes the
\* exception returns a result, an exception that none takes leaves the call
ExExcept ==
    /\ ex_pc = "ran"
    /\ ex_outcome.kind \in RunExceptions
    /\ LET clause == ExceptClause(ex_outcome.kind)
       IN CASE clause = "TimeoutExpired" ->
                 /\ ex_result' = ResultOfTimeout(ex_in.task_id,
                                   ex_command.started_at, 5000)
                 /\ ex_pc' = "returned"
            [] clause = "Exception" ->
                 /\ ex_result' = ResultOfException(ex_in.task_id, ex_outcome.msg,
                                   ex_command.started_at, Elapsed(ex_outcome))
                 /\ ex_pc' = "returned"
            [] OTHER ->
                 /\ ex_result' = ex_result
                 /\ ex_pc' = "raised"
    /\ UNCHANGED <<ex_in, ex_command, ex_outcome, cycleVars, awVars, moreVars>>

NextExec == ExPrepare \/ ExRun \/ ExReturn \/ ExExcept

SpecExec == InitExec /\ [][NextExec]_vars

\* ------------------------------------ parser.py: parse_all_tasks
\* The longest generated document, in lines.
MaxDocLines == 4

\* The lines that the generated documents are made of.
DocAlphabet ==
    { Heading(1, "T"), Heading(2, "A"), Heading(2, "Config"),
      CommandBt("a"), CommandBare("b"), Sched, Field("Schedule", <<"s", "t">>) }

\* Every document of at most MaxDocLines lines over the alphabet.
GenDocs ==
    { TextOf(ls) : ls \in UNION { [1 .. k -> DocAlphabet] : k \in 0 .. MaxDocLines } }

\* a generic sub-heading under "Backup Docs"
DocBackup ==
    TextOf(<< Heading(2, "Backup Docs"), Heading(4, "Task Definition"),
              CommandBt("a"), Sched >>)

\* a generic heading whose parent stands above an earlier task
DocOrder ==
    TextOf(<< Heading(1, "T"), Heading(2, "A"), CommandBt("a"), Sched,
              Heading(2, "Config"), CommandBt("b") >>)

\* two generic sub-headings under one title heading
DocTwoGeneric ==
    TextOf(<< Heading(2, "A"), Heading(4, "Task Definition"), CommandBt("a"),
              Heading(4, "Config"), CommandBt("b"), Sched >>)

\* a block without Schedule, a heading without Command, a Command above
\* every heading, and a whole task after them
DocDropped ==
    TextOf(<< CommandBt("a"), Sched, Heading(2, "A"), CommandBt("a"),
              Heading(2, "T"), Sched, Heading(2, "B"), CommandBt("b"), Sched >>)

ParserDocs ==
    GenDocs \cup InitDocs \cup {DocBackup, DocOrder, DocTwoGeneric, DocDropped}

\* A file of the task folder: a text file, or one that read_text fails on.
\* "denied", "gone" (removed after it was listed) and "isdir" raise an
\* OSError, "binary" holds bytes that are not UTF-8.
TextFile(segs) == [kind |-> "text", segs |-> segs]
BadFile(kind) == [kind |-> kind, segs |-> <<>>]
Unreadable == { BadFile(k) : k \in {"denied", "gone", "isdir", "binary"} }

\* file_path.read_text(encoding="utf-8"): the exception raised, "" for none
ReadError(f) ==
    CASE f.kind = "text" -> ""
      [] f.kind = "binary" -> "UnicodeDecodeError"
      [] OTHER -> "OSError"

\* sorted(): the order of the file names
FileOrder == << ".h", "a", "b" >>

\* find_task_files: no folder, no files; hidden files are left out
find_task_files(is_dir, files) ==
    IF ~is_dir THEN <<>>
    ELSE SelectSeq(FileOrder, LAMBDA n : n \in DOMAIN files /\ n # ".h")

\* The task folders of the model.
Vaults ==
    { [n \in {"a"} |-> f] : f \in { TextFile(d) : d \in ParserDocs } \cup Unreadable }
    \cup { [n \in {"a", "b"} |-> IF n = "a" THEN fa ELSE fb] :
             fa \in Unreadable \cup {TextFile(DocTitled)},
             fb \in Unreadable \cup {TextFile(DocMulti)} }
    \cup { [n \in {".h", "a"} |-> IF n = "a" THEN TextFile(DocTitled) ELSE fh] :
             fh \in {TextFile(DocMulti), BadFile("binary")} }

InitParse ==
    /\ pc = "off" /\ file = <<>> /\ task = NoTask /\ result = NoResult
    /\ report = None /\ reports = <<>> /\ cycles = 0 /\ before = <<>>
    /\ runs = <<>> /\ start = <<>>
    /\ AwIdle /\ ExIdle /\ RunOff /\ UpdOff /\ TwoOff /\ FnOff
    /\ \/ tasks_dir = TRUE /\ vault \in Vaults
       \/ tasks_dir = FALSE /\ vault = <<>>
    /\ pl_pc = "call"
    /\ pl_files = <<>>
    /\ pl_tasks = <<>>
    /\ pl_out = <<>>

\* parse_all_tasks, line 113: find_task_files
PlFind ==
    /\ pl_pc = "call"
    /\ pl_files' = find_task_files(tasks_dir, vault)
    /\ pl_pc' = "loop"
    /\ UNCHANGED <<tasks_dir, vault, pl_tasks, pl_out, cycleVars, awVars, exVars,
                   runVars, updVars,
                   twoVars, fnVars>>

\* parse_all_tasks, lines 115-116: parse_file on the next file.  parse_file
\* returns [] on an OSError of read_text (lines 93-97); any other exception
\* of read_text leaves parse_file and parse_all_tasks.
PlParse ==
    /\ pl_pc = "loop"
    /\ pl_files # <<>>
    /\ LET name == Head(pl_files)
           f == vault[name]
           tasks == IF ReadError(f) = "OSError" THEN <<>> ELSE parse_file(f.segs)
       IN IF ReadError(f) \notin {"", "OSError"}
          THEN /\ pl_pc' = "raised"
               /\ UNCHANGED <<pl_files, pl_tasks, pl_out>>
          ELSE /\ pl_pc' = "loop"
               /\ pl_files' = Tail(pl_files)
               /\ pl_tasks' = pl_tasks \o
                     [ i \in 1 .. Len(tasks) |-> [file |-> name, task |-> tasks[i]] ]
               /\ pl_out' = Append(pl_out, [file |-> name, tasks |-> tasks])
    /\ UNCHANGED <<tasks_dir, vault, cycleVars, awVars, exVars, runVars, updVars,
                   twoVars, fnVars>>

\* parse_all_tasks, line 117: return tasks
PlReturn ==
    /\ pl_pc = "loop"
    /\ pl_files = <<>>
    /\ pl_pc' = "returned"
    /\ UNCHANGED <<tasks_dir, vault, pl_files, pl_tasks, pl_out, cycleVars, awVars,
                   exVars, runVars, updVars,
                   twoVars, fnVars>>

NextParse == PlFind \/ PlParse \/ PlReturn

SpecParse == InitParse /\ [][NextParse]_vars

\* ------------------------------------------------------- cli.py: run
\* The number of runs that go through in a sequence of invocations.
MaxRuns == 1

\* two tasks, the title of one inside the title of the other
DocAB ==
    TextOf(<< Heading(2, "A"), CommandBt("a"), Sched, Blank,
              Heading(2, "AB"), CommandBt("b"), Sched >>)

\* a document without a task
DocEmpty == TextOf(<< Heading(2, "A"), Prose("note") >>)

RunDocs == {DocTitled, DocMulti, DocAB, DocFixture, DocEmpty}

\* The command lines of the model: a task name or none, --file or not.
Argvs ==
    [ task_name : {None, Some(""), Some("A"), Some("b"), Some("ab"), Some("zzz")},
      file_path : BOOLEAN ]

\* a in b for two lower case strings of the model
Contains(a, b) ==
    \/ a = ""
    \/ a = b
    \/ <<a, b>> \in { <<"a", "ab">>, <<"b", "ab">>, <<"a", "task definition">>,
                      <<"task", "task definition">>, <<"a", "backup docs">>,
                      <<"b", "backup docs">> }

\* A run that takes the first of several matching tasks.
SelectTask_first_match(tasks, task_name) ==
    LET matches == SelectSeq(tasks, LAMBDA t : Contains(Lower(task_name), Lower(t.title)))
    IN IF matches = <<>> THEN None ELSE Some(matches[1])
\* run, lines 160-171: the task that the name selects, None when no task or
\* more than one task matches
SelectTask(tasks, task_name) ==
    LET name_lower == Lower(task_name)
        matches == SelectSeq(tasks, LAMBDA t : Contains(name_lower, Lower(t.title)))
    IN IF matches = <<>> THEN None
       ELSE IF Len(matches) > 1 THEN None
       ELSE Some(matches[1])

InitRun ==
    /\ AwIdle /\ ExIdle /\ PlOff /\ UpdOff /\ TwoOff /\ FnOff
    /\ file \in RunDocs
    /\ pc = "shell"
    /\ task = NoTask
    /\ result = NoResult
    /\ report = None
    /\ reports = <<>>
    /\ cycles = 0
    /\ before = <<>>
    /\ runs = <<>>
    /\ start = file
    /\ argv = <<>>
    /\ exit_code = None

\* An invocation ends with sys.exit(1) before anything is executed.
RunExit1 ==
    /\ pc' = "exited"
    /\ exit_code' = Some(1)
    /\ UNCHANGED task

\* run, lines 132-174: the arguments, the tasks of the vault (its one
\* document, by --file or by the listing of the task folder) and the task
\* to run
RunSelect ==
    /\ pc \in {"shell", "exited"}
    /\ cycles < MaxRuns
    /\ \E a \in Argvs :
         /\ argv' = a
         /\ LET tasks == parse_file(file)
                named == ~IsNone(a.task_name) /\ Get(a.task_name) # ""
            IN IF ~named /\ ~a.file_path THEN RunExit1
               ELSE IF tasks = <<>> THEN RunExit1
               ELSE IF named
               THEN IF IsNone(SelectTask(tasks, Get(a.task_name))) THEN RunExit1
                    ELSE /\ task' = Get(SelectTask(tasks, Get(a.task_name)))
                         /\ pc' = "parsed"
                         /\ exit_code' = None
               ELSE /\ task' = tasks[1]
                    /\ pc' = "parsed"
                    /\ exit_code' = None
    /\ UNCHANGED <<file, result, report, reports, cycles, before, runs, start,
                   awVars, exVars, plVars, updVars,
                   twoVars, fnVars>>

\* run, lines 189-200: show the result; the command returns, exit status 0
RunFinish ==
    /\ pc = "idle"
    /\ pc' = "exited"
    /\ exit_code' = Some(0)
    /\ UNCHANGED <<file, task, result, report, reports, cycles, before, runs, start,
                   argv, awVars, exVars, plVars, updVars,
                   twoVars, fnVars>>

\* A run that goes on to update_task_state after create_report has failed.
RunReportFails_goes_on ==
    /\ pc = "executed"
    /\ pc' = "reported"
    /\ UNCHANGED <<file, task, result, report, reports, cycles, before, runs, start,
                   argv, exit_code, awVars, exVars, plVars, updVars, twoVars, fnVars>>
\* run, line 186: create_report raises (its _atomic_write fails, writer.py
\* 449, and leaves no report file); nothing in run catches the exception,
\* line 187 is not reached and the process ends with exit status 1, its
\* ExecutionResult lost with it
RunReportFails ==
    /\ pc = "executed"
    /\ pc' = "exited"
    /\ exit_code' = Some(1)
    /\ result' = NoResult
    /\ UNCHANGED <<file, task, report, reports, cycles, before, runs, start,
                   argv, awVars, exVars, plVars, updVars, twoVars, fnVars>>

NextRun ==
    RunSelect \/ Execute \/ CreateReport \/ RunReportFails \/ Update \/ RunFinish

SpecRun == InitRun /\ [][NextRun]_vars

\* ------------------------------- writer.py: update_task_state, step by step
\* The outcomes of the runs that wrote the documents which the update reads.
EarlierOutcomes ==
    { ExitOutcome(0, Txt("out"), EmptyText),
      ExitOutcome(1, Txt("out"), Txt(" ")),
      ExitOutcome(0, TxtTail("out", "ff", "hist"), EmptyText) }

\* The documents that update_task_state reads: the documents as the user
\* wrote them, and the same after one earlier run of one of their tasks.
UpdDocs ==
    InitDocs \cup
    { NewContent(UpdatedLines(d, parse_file(d)[i],
                              execute_task(parse_file(d)[i].id, o, <<1, 0>>, Elapsed(o)),
                              None, None)) :
        <<d, i, o>> \in { x \in InitDocs \X (1 .. 2) \X EarlierOutcomes :
                            x[2] <= Len(parse_file(x[1])) } }

\* The entries of u_log: a patch of a section with the block bounds it was
\* given and the lines before and after it, the reading of the history rows,
\* and a write of the file.
LogEntry(op, section, block, lines_before, lines_after) ==
    [ op |-> op, section |-> section, block |-> block,
      before |-> lines_before, after |-> lines_after ]

\* An update that keeps the block bounds that it computed first, cut to the
\* length of the lines.
RefindBlock_stale(lines, t, block) ==
    << block[1], IF block[2] > Len(lines) THEN Len(lines) ELSE block[2] >>
\* update_task_state, lines 345 and 353: the block bounds, found again in
\* the lines as they are now
RefindBlock(lines, t, block) == _find_task_block_range(lines, t)

\* The arguments of the call: a task that was parsed from the document, a
\* result and a report path; the file may be gone by the time of the call
\* (None).
InitUpd ==
    /\ AwIdle /\ ExIdle /\ PlOff /\ RunOff /\ TwoOff /\ FnOff
    /\ pc = "off"
    /\ \E d \in UpdDocs :
         /\ file \in {d, None}
         /\ start = file
         /\ \E i \in 1 .. Len(parse_file(d)) : task = parse_file(d)[i]
    /\ \E o \in Outcomes, us \in Micros :
         result = execute_task(task.id, o, <<2, us>>, Elapsed(o))
    /\ report \in {None, Some(ReportStem(task, result))}
    /\ reports = <<>>
    /\ cycles = 0
    /\ before = <<>>
    /\ runs = <<>>
    /\ u_pc = "call"
    /\ u_lines = <<>>
    /\ u_block = <<>>
    /\ u_rows = <<>>
    /\ u_log = <<>>
    /\ u_writes = 0

\* lines 301-313: no file, no update; else read the file, split it into
\* lines and find the block of the task
UpdStart ==
    /\ u_pc = "call"
    /\ IF IsNone(file)
       THEN /\ u_pc' = "returned"
            /\ UNCHANGED <<u_lines, u_block>>
       ELSE /\ u_lines' = SplitLines(file)
            /\ u_block' = _find_task_block_range(SplitLines(file), task)
            /\ u_pc' = "state"
    /\ UNCHANGED <<u_rows, u_log, u_writes, cycleVars, awVars, exVars, plVars, runVars,
                   twoVars, fnVars>>

\* One patch of update_task_state: the section is replaced or inserted with
\* the block bounds that the function holds at this point.
UpdPatch(section, new_section_lines, to) ==
    /\ u_lines' = _replace_or_insert_section(u_lines, section, new_section_lines,
                                             u_block[1], u_block[2])
    /\ u_log' = Append(u_log, LogEntry("patch", section, u_block, u_lines, u_lines'))
    /\ u_pc' = to
    /\ UNCHANGED <<u_block, u_rows, u_writes, cycleVars, awVars, exVars, plVars, runVars,
                   twoVars, fnVars>>

\* lines 315-342: the new state and statistics values, then the patch of
\* Current State
UpdState ==
    /\ u_pc = "state"
    /\ UpdPatch("Current State",
                build_current_state_lines(
                    IF result.success THEN "success" ELSE "failed",
                    result.started_at, None, Some(result.duration), summary(result)),
                "block1")

\* line 345: find the block again
UpdBlock1 ==
    /\ u_pc = "block1"
    /\ u_block' = RefindBlock(u_lines, task, u_block)
    /\ u_pc' = "stats"
    /\ UNCHANGED <<u_lines, u_rows, u_log, u_writes, cycleVars, awVars, exVars,
                   plVars, runVars,
                   twoVars, fnVars>>

\* lines 347-349: the patch of Statistics
UpdStats ==
    /\ u_pc = "stats"
    /\ UpdPatch("Statistics",
                build_statistics_lines(
                    task.total_runs + 1,
                    task.successful_runs + (IF result.success THEN 1 ELSE 0),
                    task.failed_runs + (IF result.success THEN 0 ELSE 1),
                    IF ~result.success THEN result.started_at ELSE task.last_failure),
                "block2")

\* line 353: find the block again
UpdBlock2 ==
    /\ u_pc = "block2"
    /\ u_block' = RefindBlock(u_lines, task, u_block)
    /\ u_pc' = "rows"
    /\ UNCHANGED <<u_lines, u_rows, u_log, u_writes, cycleVars, awVars, exVars,
                   plVars, runVars,
                   twoVars, fnVars>>

\* lines 356-361: the rows of the Run History that is in the lines now
UpdRows ==
    /\ u_pc = "rows"
    /\ LET history_range == _find_section_range(u_lines, "Run History",
                                                u_block[1], u_block[2])
       IN u_rows' = IF ~IsNone(history_range)
                    THEN _parse_history_rows(u_lines, history_range[1] + 1,
                                             history_range[2] + 1)
                    ELSE <<>>
    /\ u_log' = Append(u_log, LogEntry("rows", "Run History", u_block, u_lines, u_lines))
    /\ u_pc' = "history"
    /\ UNCHANGED <<u_lines, u_block, u_writes, cycleVars, awVars, exVars, plVars,
                   runVars,
                   twoVars, fnVars>>

\* lines 363-372: the patch of Run History
UpdHistory ==
    /\ u_pc = "history"
    /\ UpdPatch("Run History", build_run_history_lines(u_rows, result, report), "write")

\* lines 374-380: join the lines and write the file, once
UpdWrite ==
    /\ u_pc = "write"
    /\ file' = NewContent(u_lines)
    /\ before' = file
    /\ u_writes' = u_writes + 1
    /\ u_log' = Append(u_log, LogEntry("write", "", u_block, u_lines, u_lines))
    /\ u_pc' = "returned"
    /\ UNCHANGED <<pc, task, result, report, reports, cycles, runs, start,
                   u_lines, u_block, u_rows, awVars, exVars, plVars, runVars,
                   twoVars, fnVars>>

NextUpd ==
    \/ UpdStart \/ UpdState \/ UpdBlock1 \/ UpdStats \/ UpdBlock2 \/ UpdRows
    \/ UpdHistory \/ UpdWrite

SpecUpd == InitUpd /\ [][NextUpd]_vars

\* ----------------------------------- cli.py: two runs at the same time
\* Two invocations of "obs-tasks run" work on one document, each through one
\* parse -> execute -> create_report -> update_task_state cycle; their steps
\* interleave in any order.
Procs == {1, 2}

TwoDocs == {DocTitled, DocNotes, DocMulti}

\* datetime.now() of a run that starts when the runs in results have started
LaterSeconds(results) ==
    LET started == { r.started_at[1] : r \in results }
    IN IF started = {} THEN {1} ELSE { Max(started), Max(started) + 1 }

InitTwo ==
    /\ AwIdle /\ ExIdle /\ PlOff /\ RunOff /\ UpdOff /\ FnOff
    /\ file \in TwoDocs
    /\ pc = "off"
    /\ task = NoTask
    /\ result = NoResult
    /\ report = None
    /\ reports = <<>>
    /\ cycles = 0
    /\ before = <<>>
    /\ runs = <<>>
    /\ start = file
    /\ procs = [ p \in Procs |->
                   [ pc |-> "shell", task |-> NoTask, result |-> NoResult,
                     report |-> None, parsed_at |-> 0, written_at |-> 0 ] ]

\* run, lines 138-174 in process p: parse the document as it is now
TwoParse(p) ==
    /\ procs[p].pc = "shell"
    /\ \E i \in 1 .. Len(parse_file(file)) :
         procs' = [procs EXCEPT ![p].task = parse_file(file)[i],
                                ![p].parsed_at = cycles,
                                ![p].pc = "parsed"]
    /\ UNCHANGED <<cycleVars, awVars, exVars, plVars, runVars, updVars, fnVars>>

\* run, lines 181-183 in process p: execute_task
TwoExecute(p) ==
    /\ procs[p].pc = "parsed"
    /\ \E o \in Outcomes, us \in Micros,
          sec \in LaterSeconds({ procs[q].result : q \in { x \in Procs :
                                   procs[x].pc \in {"executed", "reported", "done"} } }) :
         procs' = [procs EXCEPT
                     ![p].result = execute_task(procs[p].task.id, o, <<sec, us>>, Elapsed(o)),
                     ![p].pc = "executed"]
    /\ UNCHANGED <<cycleVars, awVars, exVars, plVars, runVars, updVars, fnVars>>

\* run, line 186 in process p: create_report
TwoReport(p) ==
    /\ procs[p].pc = "executed"
    /\ LET stem == ReportStem(procs[p].task, procs[p].result)
       IN /\ reports' = [ n \in (DOMAIN reports) \cup {stem} |->
                            IF n = stem
                            THEN ReportContent(procs[p].task, procs[p].result)
                            ELSE reports[n] ]
          /\ procs' = [procs EXCEPT ![p].report = Some(stem), ![p].pc = "reported"]
    /\ UNCHANGED <<file, pc, task, result, report, cycles, before, runs, start,
                   awVars, exVars, plVars, runVars, updVars, fnVars>>

\* run, line 187 in process p: update_task_state reads the document as it is
\* now (writer.py line 310) and patches it with the counters of the task as
\* process p parsed it
TwoUpdate(p) ==
    /\ procs[p].pc = "reported"
    /\ file' = NewContent(UpdatedLines(file, procs[p].task, procs[p].result,
                                       None, procs[p].report))
    /\ before' = file
    /\ cycles' = cycles + 1
    /\ runs' = Append(runs, [title |-> procs[p].task.title,
                              success |-> procs[p].result.success,
                              started_at |-> procs[p].result.started_at])
    /\ procs' = [procs EXCEPT ![p].written_at = cycles + 1, ![p].pc = "done"]
    /\ UNCHANGED <<pc, task, result, report, reports, start,
                   awVars, exVars, plVars, runVars, updVars, fnVars>>

NextTwo ==
    \E p \in Procs : TwoParse(p) \/ TwoExecute(p) \/ TwoReport(p) \/ TwoUpdate(p)

SpecTwo == InitTwo /\ [][NextTwo]_vars

\* ------------------------------------------- one function, called alone
\* The longest list of lines that a function is called with.
MaxFnLines == 3

\* The lines that these lists are made of: the section heading at the level
\* that the writer gives it and, in another letter case, at a deeper one,
\* other headings above and below these levels, the two other section
\* terminators, an empty line, a line of blanks and a line of text.
FnAlphabet ==
    { Heading(4, "Current State"), Heading(6, "CURRENT STATE"), Heading(2, "A"),
      Heading(5, "Notes"), Rule, Detailed, Blank, WsLine, Prose("x") }

FnLines == UNION { [1 .. k -> FnAlphabet] : k \in 0 .. MaxFnLines }

\* The section lines that the calls patch in.
FnSection ==
    build_current_state_lines("success", <<1, 0>>, None, Some(1234), Txt("out"))

\* The status texts that _parse_status is called with beside those that
\* _format_status returns: no text, unknown words, an unknown emoji, an alias.
FnStatusTexts ==
    { None, Some(<<"st", "", "Paused">>), Some(<<"st", "star", "Success">>),
      Some(<<"st", "check", "OK">>), Some(<<"st", "hourglass", "Never run">>) }

InitFn ==
    /\ pc = "off" /\ file = <<>> /\ task = NoTask /\ result = NoResult
    /\ report = None /\ reports = <<>> /\ cycles = 0 /\ before = <<>>
    /\ runs = <<>> /\ start = <<>>
    /\ AwIdle /\ ExIdle /\ PlOff /\ RunOff /\ UpdOff /\ TwoOff
    /\ fn_out = <<>>
    /\ \/ /\ fn_pc = "find"
          /\ \E ls \in FnLines, a \in 0 .. MaxFnLines, b \in 0 .. MaxFnLines :
               /\ a <= b /\ b <= Len(ls)
               /\ \E e \in {None, Some(b)} :
                    fn_in = [ lines |-> ls, section_title |-> "Current State",
                              search_start |-> a, search_end |-> e ]
       \/ /\ fn_pc = "patch"
          /\ \E ls \in FnLines, a \in 0 .. 1, b \in 0 .. MaxFnLines :
               /\ a <= b /\ b <= Len(ls) /\ b >= Len(ls) - 1
               /\ fn_in = [ lines |-> ls, section_title |-> "Current State",
                            new_section_lines |-> FnSection,
                            block_start |-> a, block_end |-> b ]
       \/ /\ fn_pc = "format"
          /\ fn_in \in {"success", "failed", "running", "never_run"}
       \/ /\ fn_pc = "parse"
          /\ fn_in \in FnStatusTexts

\* _find_section_range(lines, section_title, search_start, search_end), the
\* end of the search being len(lines) when search_end is None (line 184)
FnFind ==
    /\ fn_pc = "find"
    /\ fn_out' = << _find_section_range(
                      fn_in.lines, fn_in.section_title, fn_in.search_start,
                      IF IsNone(fn_in.search_end) THEN Len(fn_in.lines)
                      ELSE Get(fn_in.search_end)) >>
    /\ fn_pc' = "found"
    /\ UNCHANGED <<fn_in, cycleVars, awVars, exVars, plVars, runVars, updVars, twoVars>>

\* _replace_or_insert_section on the lines of the call
FnPatch ==
    /\ fn_pc = "patch"
    /\ fn_out' = << _replace_or_insert_section(
                      fn_in.lines, fn_in.section_title, fn_in.new_section_lines,
                      fn_in.block_start, fn_in.block_end) >>
    /\ fn_pc' = "again"
    /\ UNCHANGED <<fn_in, cycleVars, awVars, exVars, plVars, runVars, updVars, twoVars>>

\* _replace_or_insert_section once more, on the lines that it returned, with
\* the same section lines and the block bounds of the lines as they are now:
\* the block ends where it ended, after the lines that came in.
FnPatchAgain ==
    /\ fn_pc = "again"
    /\ fn_out' = Append(fn_out,
                    _replace_or_insert_section(
                      fn_out[1], fn_in.section_title, fn_in.new_section_lines,
                      fn_in.block_start,
                      fn_in.block_end + Len(fn_out[1]) - Len(fn_in.lines)))
    /\ fn_pc' = "patched"
    /\ UNCHANGED <<fn_in, cycleVars, awVars, exVars, plVars, runVars, updVars, twoVars>>

\* _format_status(status), then _parse_status on the text that it returned
FnFormat ==
    /\ fn_pc = "format"
    /\ fn_out' = << _format_status(fn_in) >>
    /\ fn_pc' = "parse"
    /\ UNCHANGED <<fn_in, cycleVars, awVars, exVars, plVars, runVars, updVars, twoVars>>

\* _parse_status(value): on the text just formatted, or on the text of the call
FnParse ==
    /\ fn_pc = "parse"
    /\ fn_out' = IF fn_out = <<>> THEN << _parse_status(fn_in) >>
                 ELSE Append(fn_out, _parse_status(Some(fn_out[1])))
    /\ fn_pc' = "parsed"
    /\ UNCHANGED <<fn_in, cycleVars, awVars, exVars, plVars, runVars, updVars, twoVars>>

NextFn == FnFind \/ FnPatch \/ FnPatchAgain \/ FnFormat \/ FnParse

SpecFn == InitFn /\ [][NextFn]_vars

\* ------------------------------------------------------ reading a state
\* update_task_state has returned and no later cycle has begun.
Updated == pc = "idle" /\ cycles > 0

OldLines == SplitLines(before)
NewLines == SplitLines(file)

\* The lines of a text for a reader that splits on "\n" only.
WrittenLines(segs) ==
    IF segs[Len(segs)] = Blank THEN SubSeq(segs, 1, Len(segs) - 1) ELSE segs

\* The 0-based indices of the extent of a section in lines.
SectionIdx(lines, title) ==
    LET r == _find_section_range(lines, title, 0, Len(lines))
    IN IF IsNone(r) THEN {} ELSE r[1] .. (r[2] - 1)

ManagedIdx(lines) ==
    SectionIdx(lines, "Current State") \cup SectionIdx(lines, "Statistics")
        \cup SectionIdx(lines, "Run History")

\* The lines of lines, from 0-based index i on, that lie outside idx.
RECURSIVE Outside(_, _, _)
Outside(lines, idx, i) ==
    IF i >= Len(lines) THEN <<>>
    ELSE (IF i \in idx THEN <<>> ELSE <<lines[i + 1]>>)
         \o Outside(lines, idx, i + 1)

Unmanaged(lines) == Outside(lines, ManagedIdx(lines), 0)

\* a is b with some elements left out
RECURSIVE IsSubseq(_, _)
IsSubseq(a, b) ==
    IF a = <<>> THEN TRUE
    ELSE IF b = <<>> THEN FALSE
    ELSE IF Head(a) = Head(b) THEN IsSubseq(Tail(a), Tail(b))
    ELSE IsSubseq(a, Tail(b))

\* The fields written in the first section of that title of the document.
SectionFields(lines, title) ==
    LET r == _find_section_range(lines, title, 0, Len(lines))
    IN IF IsNone(r) THEN _RawBlock("", 0, 0)
       ELSE _extract_fields(Slice(lines, r[1], r[2]), _RawBlock("", 0, 0))

\* The data rows of the first Run History section of the document.
HistoryRows(lines) ==
    LET r == _find_section_range(lines, "Run History", 0, Len(lines))
    IN IF IsNone(r) THEN <<>>
       ELSE _parse_history_rows(lines, r[1] + 1, r[2] + 1)

\* The tasks of a text by title.
TasksTitled(segs, title) ==
    { t \in { parse_file(segs)[i] : i \in 1 .. Len(parse_file(segs)) } :
        t.title = title }

\* The runs of the history that ran the task of that title.
RunsOf(title) == SelectSeq(runs, LAMBDA r : r.title = title)
FailedRunsOf(title) == SelectSeq(runs, LAMBDA r : r.title = title /\ ~r.success)

\* ------------------------------------------------------------------ claims

\* C1: update_task_state changes only lines inside the extents of the three
\* managed sections: every line of the document that was read outside those
\* extents is in the rewritten file, with the same content and in the same
\* relative order.
C1_UnmanagedLinesKept ==
    Updated => IsSubseq(Unmanaged(OldLines), NewLines)

\* C2: update_task_state for one task patches only inside that task's block
\* [block_start, block_end): the lines before the block and the lines from
\* the end of the block on (the blocks of the other tasks) are unchanged.
C2_OnlyOwnBlockPatched ==
    Updated =>
        LET bs == task.heading_line
            be == BlockEnd(OldLines, bs)
            rest == Len(OldLines) - be
        IN /\ Len(NewLines) >= Len(OldLines)
           /\ Slice(NewLines, 0, bs) = Slice(OldLines, 0, bs)
           /\ Slice(NewLines, Len(NewLines) - rest, Len(NewLines))
                = Slice(OldLines, be, Len(OldLines))

\* C3: round trip: parse_file on the document that update_task_state wrote
\* returns, for the task that was updated, the status, the counters, the
\* last run and the last failure that were just written (times to the
\* second).
C3_RoundTrip ==
    Updated =>
        /\ TasksTitled(file, task.title) # {}
        /\ \A t \in TasksTitled(file, task.title) :
            /\ t.status = (IF result.success THEN "success" ELSE "failed")
            /\ t.total_runs = task.total_runs + 1
            /\ t.successful_runs = task.successful_runs
                                     + (IF result.success THEN 1 ELSE 0)
            /\ t.failed_runs = task.failed_runs
                                     + (IF result.success THEN 0 ELSE 1)
            /\ t.last_run = <<result.started_at[1], 0>>
            /\ t.last_failure =
                 (IF ~result.success THEN <<result.started_at[1], 0>>
                  ELSE IF IsNone(task.last_failure) THEN None
                  ELSE <<task.last_failure[1], 0>>)

\* The Statistics of the start document are absent or conserve the total.
StartTask(title) == CHOOSE t \in TasksTitled(start, title) : TRUE
StartConserved ==
    \A i \in 1 .. Len(parse_file(start)) :
        LET t == parse_file(start)[i]
        IN t.total_runs = t.successful_runs + t.failed_runs

\* C4: statistics conservation: after any sequence of cycles the counters
\* written for the task satisfy total == successful + failed, and the total
\* is the starting total plus the number of cycles run on the task.
C4_StatisticsConserved ==
    (Updated /\ StartConserved) =>
        LET st == SectionFields(WrittenLines(file), "Statistics")
            total == _parse_int(st.total_runs)
        IN /\ total = _parse_int(st.successful) + _parse_int(st.failed)
           /\ total = StartTask(task.title).total_runs + Len(RunsOf(task.title))

\* C5: after any sequence of cycles the written Last Failure is the start
\* time of the most recent failed run of the task ("-" when none failed),
\* and Status, Last Run, Duration and Result are those of the last run.
C5_LastFailureKept ==
    Updated =>
        LET st == SectionFields(WrittenLines(file), "Statistics")
            cs == SectionFields(WrittenLines(file), "Current State")
            failed == FailedRunsOf(task.title)
        IN /\ st.last_failure =
                Some(IF failed = <<>> THEN <<"dash">>
                     ELSE <<"dt", failed[Len(failed)].started_at[1]>>)
           /\ cs.status = Some(_format_status(
                                 IF result.success THEN "success" ELSE "failed"))
           /\ cs.last_run = Some(<<"dt", result.started_at[1]>>)
           /\ cs.duration = Some(_format_duration(Some(result.duration)))
           /\ cs.result = Some(_format_result(summary(result)))

\* The start document has no Run History section.
StartNoHistory == SectionIdx(SplitLines(start), "Run History") = {}

\* C6: bounded history: after N cycles on a document that started without a
\* Run History, the table holds min(N, 20) data rows, most recent first.
C6_BoundedHistory ==
    (Updated /\ StartNoHistory) =>
        LET rows == HistoryRows(WrittenLines(file))
            n == IF cycles < MAX_HISTORY_ROWS THEN cycles ELSE MAX_HISTORY_ROWS
        IN /\ Len(rows) = n
           /\ \A i \in 1 .. Len(rows) :
                /\ rows[i].v[2] = runs[cycles + 1 - i].started_at[1]
                /\ rows[i].v[3] = (IF runs[cycles + 1 - i].success
                                   THEN "check" ELSE "cross")

\* Title, Command and Schedule of the tasks that parse_file returns.
Definitions(segs) ==
    [ i \in 1 .. Len(parse_file(segs)) |->
        << parse_file(segs)[i].title, parse_file(segs)[i].command,
           parse_file(segs)[i].schedule >> ]

\* C7: the task definition is never changed: whatever the execution results
\* hold, parse_file extracts the same Command and Schedule after
\* update_task_state as before, over any number of cycles.
C7_DefinitionKept ==
    pc = "idle" => Definitions(file) = Definitions(start)

\* ------------------------------------------------------- _atomic_write
\* C8: while _atomic_write runs, and when the process dies at any step of
\* it, the destination holds the whole previous content (or does not exist,
\* when it did not before) or the whole new content, and a reader that opened
\* it and read to its end has read one of these two, whole: never a part.
C8_ReaderSeesWholeFile ==
    aw_pc # "off" =>
      /\ ContentOf(dir, inodes, "dest") \in {dest0, Some(NewContent0)}
      /\ (aw_pc # "done" => ContentOf(dir, inodes, "dest") = dest0)
      /\ (rd_pc = "eof" => Some(rd_buf) \in {dest0, Some(NewContent0)})
      /\ (rd_pc = "nofile" => IsNone(dest0))

\* C8 happens: the reader has read the whole previous content while the
\* temp file holds a part of the new one, and the writer died there.
C8_Witness ==
    /\ aw_pc = "crashed"
    /\ "tmp" \in DOMAIN dir
    /\ Len(inodes[dir["tmp"]]) > 0
    /\ Len(inodes[dir["tmp"]]) < AwChunks
    /\ rd_pc = "eof"
    /\ rd_buf = OldContent

\* The steps of _atomic_write that come before os.replace.
StepsBeforeRename == {"mkdir", "mkstemp", "write", "close"}

\* C9 as stated: when a step before the rename has failed and the error has
\* reached the caller, the temp file is gone and the destination holds its
\* previous content; a failed step never ends in a normal return; after a
\* write that succeeded no temp file is left.
C9_TempDeletedOnFailure ==
    aw_pc # "off" =>
      /\ (aw_pc = "raised" /\ aw_failed \in StepsBeforeRename) =>
            /\ "tmp" \notin DOMAIN dir
            /\ ContentOf(dir, inodes, "dest") = dest0
      /\ (aw_failed # "" => aw_pc \in {"except", "raised", "crashed"})
      /\ (aw_pc = "done" => "tmp" \notin DOMAIN dir)

\* C9, amended: the same, but the temp file may be left behind when its
\* deletion itself failed (the OSError of os.unlink is passed over and the
\* first error is raised all the same).
C9_TempDeletedUnlessUnlinkFails ==
    aw_pc # "off" =>
      /\ (aw_pc = "raised" /\ aw_failed \in StepsBeforeRename) =>
            /\ ("tmp" \in DOMAIN dir => unlink_failed)
            /\ ContentOf(dir, inodes, "dest") = dest0
      /\ (aw_failed # "" => aw_pc \in {"except", "raised", "crashed"})
      /\ (aw_pc = "done" =>
            /\ "tmp" \notin DOMAIN dir
            /\ ContentOf(dir, inodes, "dest") = Some(NewContent0))

\* C9 happens: the write to the temp file failed after a part of the content,
\* the except clause removed the temp file and the error is with the caller.
C9_Witness ==
    /\ aw_pc = "raised"
    /\ aw_failed = "write"
    /\ ~unlink_failed
    /\ "tmp" \notin DOMAIN dir
    /\ \E i \in 1 .. Len(inodes) : inodes[i] = <<NewContent0[1]>>
    /\ dest0 = Some(OldContent)

\* ---------------------------------------------------------- execute_task
\* C10: execute_task does not raise for a command that exits non-zero, runs
\* over its timeout or cannot be launched; what it returns then has success
\* false and an error_message that is not empty; timed_out is true exactly
\* for the timeout, success is true exactly for exit code 0.
C10_NeverRaises ==
    ex_pc # "off" =>
      /\ (ex_pc = "raised" => ~IsException(ex_outcome.kind))
      /\ (ex_pc = "returned" =>
            /\ (ex_outcome.kind # "exit" \/ ex_outcome.code # 0) =>
                  /\ ~ex_result.success
                  /\ ~IsNone(ex_result.error_message)
                  /\ Truthy(Get(ex_result.error_message))
            /\ (ex_result.timed_out <=> ex_outcome.kind = "TimeoutExpired")
            /\ (ex_result.success <=> ex_result.exit_code = 0)
            /\ (ex_outcome.kind = "exit" => ex_result.exit_code = ex_outcome.code)
            /\ (ex_in.working_dir = Some("missing") => ~ex_result.success))

\* C10 happens: the process could not be launched in a missing working
\* directory and execute_task has returned a result.
C10_Witness ==
    /\ ex_pc = "returned"
    /\ ex_in.working_dir = Some("missing")
    /\ ex_outcome.kind = "OSError"
    /\ ~ex_result.success
    /\ ~ex_result.timed_out

\* ------------------------------------------------------------- the parser
\* The lines of the file that an entry of pl_out is the result for.
OutLines(e) ==
    IF vault[e.file].kind = "text" THEN SplitLines(vault[e.file].segs) ELSE <<>>

\* The 0-based indices of the Command lines and the Schedule lines of lines.
CommandIdx(lines) == { c \in 0 .. (Len(lines) - 1) : IsCommandLine(lines[c + 1]) }
ScheduleIdx(lines) ==
    { c \in 0 .. (Len(lines) - 1) : lines[c + 1].k = "f" /\ lines[c + 1].t = "Schedule" }

\* The 0-based indices of the headings above line c.
HeadingsAbove(lines, c) == { h \in 0 .. (c - 1) : lines[h + 1].k = "h" }

\* The headings above heading g that have a strictly lower level.
ParentsOf(lines, g) ==
    { p \in HeadingsAbove(lines, g) : lines[p + 1].lvl < lines[g + 1].lvl }

\* The extent of heading h: up to the next heading of the same or a lower
\* level number, or the end of the document.
ExtentOf(lines, h) ==
    { i \in h .. (Len(lines) - 1) :
        \A n \in (h + 1) .. i :
            ~(lines[n + 1].k = "h" /\ lines[n + 1].lvl <= lines[h + 1].lvl) }

\* The heading lines of the tasks of an entry of pl_out.
HeadingLines(e) == { e.tasks[i].heading_line : i \in 1 .. Len(e.tasks) }

C12_OneTaskPerHeading ==
    \A n \in 1 .. Len(pl_out) :
        \A i, j \in 1 .. Len(pl_out[n].tasks) :
            i # j => pl_out[n].tasks[i].heading_line # pl_out[n].tasks[j].heading_line

\* C13: the field extractor keeps the first match: the Command and the
\* Schedule of a task are those of the first Command line and of the first
\* Schedule line in the extent of its heading.
C13_FirstMatchWins ==
    \A n \in 1 .. Len(pl_out) :
        LET e == pl_out[n]
            lines == OutLines(e)
        IN \A i \in 1 .. Len(e.tasks) :
             LET ext == ExtentOf(lines, e.tasks[i].heading_line)
                 c == Min(ext \cap CommandIdx(lines))
                 sc == Min(ext \cap ScheduleIdx(lines))
             IN /\ e.tasks[i].command = lines[c + 1].v[2]
                /\ e.tasks[i].schedule = lines[sc + 1].v[2]

\* C14: the tasks that parse_file returns are in document order: their
\* heading_line values never decrease along the list.
C14_DocumentOrder ==
    \A n \in 1 .. Len(pl_out) :
        \A i, j \in 1 .. Len(pl_out[n].tasks) :
            i < j => pl_out[n].tasks[i].heading_line <= pl_out[n].tasks[j].heading_line

C16_OneFileOneTask ==
    \A n \in 1 .. Len(pl_out) :
        LET e == pl_out[n]
            lines == OutLines(e)
        IN (vault[e.file].kind = "text" /\ CommandIdx(lines) # {}
                /\ ScheduleIdx(lines) # {}) =>
             /\ Len(e.tasks) = 1
             /\ e.tasks[1].title = e.file
             /\ e.tasks[1].heading_line = 0

\* The tasks of the files of names, file by file, an unreadable file giving
\* none.
RECURSIVE TasksOfFiles(_)
TasksOfFiles(names) ==
    IF names = <<>> THEN <<>>
    ELSE (IF vault[Head(names)].kind = "text"
          THEN LET ts == parse_file(vault[Head(names)].segs)
               IN [ i \in 1 .. Len(ts) |-> [file |-> Head(names), task |-> ts[i]] ]
          ELSE <<>>)
         \o TasksOfFiles(Tail(names))

\* C17: listing is best-effort: parse_all_tasks never raises, and what it
\* returns is the tasks of every readable file of the task folder, a file
\* that cannot be read or decoded and a missing folder counting for none.
C17_ListingBestEffort ==
    /\ pl_pc # "raised"
    /\ pl_pc = "returned" =>
         pl_tasks = TasksOfFiles(find_task_files(tasks_dir, vault))

\* --------------------------------------------------------------- the run
\* The tasks of the document whose title holds the name, whatever the case.
Matching(name) ==
    { i \in 1 .. Len(parse_file(file)) :
        Contains(Lower(name), Lower(parse_file(file)[i].title)) }

\* The invocation names a task.
Named(a) == a # <<>> /\ ~IsNone(a.task_name) /\ Get(a.task_name) # ""

\* C18: run with a task name executes a command only when exactly one parsed
\* task's title holds the name: a run that is past the selection has exactly
\* one match and runs that task; an invocation with no match or with several
\* ends there with a non-zero exit status, nothing executed, no report and
\* no document written.
C18_RunByName ==
    /\ [](( Named(argv) /\ pc \in {"parsed", "executed", "reported"}) =>
            /\ Cardinality(Matching(Get(argv.task_name))) = 1
            /\ \A i \in Matching(Get(argv.task_name)) : task = parse_file(file)[i])
    /\ [][ (RunSelect /\ Named(argv')
              /\ Cardinality(Matching(Get(argv'.task_name))) # 1) =>
             /\ pc' = "exited"
             /\ exit_code' \notin {None, Some(0)}
             /\ UNCHANGED <<file, reports, result, runs, cycles>> ]_vars

\* C18 happens: the name "A" is in the titles of two tasks, the invocation
\* has ended with exit status 1 and nothing has run.
C18_Witness ==
    /\ pc = "exited"
    /\ Named(argv)
    /\ Get(argv.task_name) = "A"
    /\ Cardinality(Matching("A")) = 2
    /\ exit_code = Some(1)
    /\ cycles = 0
    /\ reports = <<>>
    /\ file = start

\* ----------------------------------------------------------- the reports
\* C19: report files are never revised after creation: no step changes or
\* replaces the content of a report file that exists.
C19_ReportsNeverRevised ==
    [][ \A n \in DOMAIN reports :
          n \in DOMAIN reports' /\ reports'[n] = reports[n] ]_vars

\* ------------------------------------------------- the order of the update
\* The entries of u_log of one kind.
LogOf(op) == SelectSeq(u_log, LAMBDA e : e.op = op)

\* C20: update_task_state patches Current State, then Statistics, then Run
\* History; every patch is given the block bounds of the lines as they are
\* when it is made; the existing history rows are read from the lines as the
\* Statistics patch left them; and the file is written once, after the three
\* patches, with what the three of them came to.
C20_PatchOrder ==
    /\ u_writes <= 1
    /\ (u_pc \notin {"off", "returned"}) => (u_writes = 0 /\ file = start)
    /\ (u_pc = "returned" /\ ~IsNone(start)) =>
         /\ [ i \in 1 .. Len(u_log) |-> u_log[i].op ]
              = << "patch", "patch", "rows", "patch", "write" >>
         /\ [ i \in 1 .. 3 |-> LogOf("patch")[i].section ]
              = << "Current State", "Statistics", "Run History" >>
         /\ \A i \in 1 .. 4 :
              u_log[i].block = _find_task_block_range(u_log[i].before, task)
         /\ u_log[1].before = SplitLines(start)
         /\ u_log[2].before = u_log[1].after
         /\ u_log[3].before = u_log[2].after
         /\ u_rows = HistoryRows(u_log[2].after)
         /\ u_log[4].before = u_log[2].after
         /\ u_log[5].before = u_log[4].after
         /\ u_writes = 1
         /\ file = NewContent(u_log[4].after)
         /\ file = NewContent(UpdatedLines(start, task, result, None, report))

\* C20 happens: the document held a Run History with a row, the patch of
\* Current State changed the number of lines, and the update has written
\* the file.
C20_Witness ==
    /\ u_pc = "returned"
    /\ u_writes = 1
    /\ u_rows # <<>>
    /\ Len(u_log) = 5
    /\ Len(u_log[1].after) # Len(u_log[1].before)
    /\ u_log[2].block # u_log[1].block

\* ------------------------------------------------------ two runs at once
\* C21: last writer wins: when two cycles on the same document overlap (both
\* have parsed before either has written), the document after both writes is
\* what the later run alone makes of the document that it parsed: its
\* Current State, its Statistics and its Run History, and nothing that the
\* earlier run wrote.
C21_LastWriterWins ==
    \A p \in DOMAIN procs :
        (/\ \A q \in DOMAIN procs : procs[q].pc = "done" /\ procs[q].parsed_at = 0
         /\ procs[p].written_at = 2) =>
            file = NewContent(UpdatedLines(start, procs[p].task, procs[p].result,
                                           None, procs[p].report))

\* ------------------------------------------------- the functions, alone
\* C22: _find_section_range returns None when no heading in
\* [search_start, search_end) has the section title (whatever the letter
\* case and the level); else the range from the first such heading up to the
\* first later line that is a heading of the same or a shallower level, a
\* "---" line or a "**Detailed" line, or up to search_end when there is no
\* such line: no line inside the range ends the section, a deeper heading
\* least of all.
C22_SectionRange ==
    fn_pc = "found" =>
        LET ls == fn_in.lines
            a == fn_in.search_start
            e == IF IsNone(fn_in.search_end) THEN Len(ls) ELSE Get(fn_in.search_end)
            r == fn_out[1]
            matches == { i \in a .. (e - 1) :
                           /\ ls[i + 1].k = "h"
                           /\ Lower(ls[i + 1].t) = Lower(fn_in.section_title) }
            Stops(i, lvl) ==
                \/ ls[i + 1].k = "h" /\ ls[i + 1].lvl <= lvl
                \/ ls[i + 1].k \in {"hr", "det"}
        IN IF matches = {} THEN IsNone(r)
           ELSE /\ ~IsNone(r)
                /\ r[1] \in matches
                /\ \A m \in matches : r[1] <= m
                /\ r[1] < r[2] /\ r[2] <= e
                /\ \A i \in (r[1] + 1) .. (r[2] - 1) : ~Stops(i, ls[r[1] + 1].lvl)
                /\ r[2] < e => Stops(r[2], ls[r[1] + 1].lvl)

\* C22 happens: the section was found in "#### Current State / ##### Notes /
\* ## A": it goes on over the deeper heading and ends at the shallower one.
C22_Witness ==
    /\ fn_pc = "found"
    /\ fn_in.lines = << Heading(4, "Current State"), Heading(5, "Notes"), Heading(2, "A") >>
    /\ fn_in.search_start = 0
    /\ fn_in.search_end = None
    /\ fn_out = << <<0, 2>> >>

C24_PatchIdempotent ==
    fn_pc = "patched" => fn_out[2] = fn_out[1]

\* C26: _parse_status gives back the status that _format_status was given,
\* for each of the four statuses; for no text and for a text that it does not
\* know it gives never_run; it gives a status for every text.
C26_StatusRoundTrip ==
    fn_pc = "parsed" =>
        IF Len(fn_out) = 2 THEN fn_out[2] = fn_in
        ELSE /\ fn_out[1] \in {"success", "failed", "running", "never_run"}
             /\ fn_in # Some(<<"st", "check", "OK">>) => fn_out[1] = "never_run"

\* C26 happens: "Running" with its emoji was written for running and read
\* back as running.
C26_Witness ==
    /\ fn_pc = "parsed"
    /\ fn_in = "running"
    /\ fn_out = << <<"st", "cycle", "Running">>, "running" >>

C30_BlocksDisjoint ==
    \A n \in 1 .. Len(pl_out) :
        LET e == pl_out[n]
            lines == OutLines(e)
        IN \A i, j \in 1 .. Len(e.tasks) :
             e.tasks[i].heading_line # e.tasks[j].heading_line =>
                ExtentOf(lines, e.tasks[i].heading_line)
                    \cap ExtentOf(lines, e.tasks[j].heading_line) = {}

\* ------------------------------------------------- the table and the counters
\* C27: in cycles on a document of one task that started without Statistics
\* and without Run History, after every update the Run History holds
\* min(Total Runs, 20) data rows.
C27_RowsMatchTotal ==
    (/\ Updated
     /\ Len(parse_file(start)) = 1
     /\ SectionIdx(SplitLines(start), "Statistics") = {}
     /\ StartNoHistory) =>
        LET total == _parse_int(SectionFields(WrittenLines(file), "Statistics").total_runs)
        IN Len(HistoryRows(WrittenLines(file)))
             = (IF total < MAX_HISTORY_ROWS THEN total ELSE MAX_HISTORY_ROWS)

\* ------------------------------------------------------ the statuses written
\* The Status lines of a text.
StatusLines(segs) ==
    { WrittenLines(segs)[i] : i \in { x \in 1 .. Len(WrittenLines(segs)) :
        WrittenLines(segs)[x].k = "f" /\ WrittenLines(segs)[x].t = "Status" } }

\* C28: the system writes no status but Success and Failed: every Status
\* line of the document that the user did not write says one of the two; no
\* step of a cycle but update_task_state changes the document, so that it
\* shows the outcome of the run before while a command runs; and a task that
\* has been updated once is never parsed as never_run again.
C28_OnlySuccessOrFailed ==
    /\ [](/\ \A l \in StatusLines(file) \ StatusLines(start) :
                l.v \in {_format_status("success"), _format_status("failed")}
          /\ pc = "idle" =>
               \A i \in 1 .. Len(runs) :
                   \A t \in TasksTitled(file, runs[i].title) : t.status # "never_run")
    /\ [][pc # "reported" => file' = file]_vars

\* ------------------------------------------------- the report and the document
\* C29: in run the report is created before the document is rewritten: a
\* step that changes the document finds the report of the run among the
\* report files, and the row that it adds to the Run History links to this
\* report; when create_report fails, the command has been executed, the
\* document stays as it is and the run ends there.
C29_ReportBeforeDocument ==
    /\ [][ file' # file =>
             /\ pc = "reported"
             /\ ~IsNone(report)
             /\ Get(report) \in DOMAIN reports
             /\ HistoryRows(WrittenLines(file'))[1].v[5] = <<"link", Get(report)>> ]_vars
    /\ [][ (pc = "executed" /\ pc' # "reported") =>
             /\ result # NoResult
             /\ file' = file
             /\ pc' = "exited"
             /\ exit_code' \notin {None, Some(0)} ]_vars
    /\ [](pc = "reported" => (~IsNone(report) /\ Get(report) \in DOMAIN reports))

\* C29 happens: the command of task A was executed, create_report failed,
\* the run has ended with exit status 1 and the document is as it was.
C29_Witness ==
    /\ pc = "exited"
    /\ exit_code = Some(1)
    /\ result = NoResult
    /\ task # NoTask
    /\ task.title = "A"
    /\ reports = <<>>
    /\ cycles = 0
    /\ file = start

====
